---------------------------- MODULE Spec2Model ----------------------------
(***************************************************************************)
(* Model of python3_download_facescrub.py: the batch driver main(), the    *)
(* per-record pipeline parse_line -> download_image -> save_image, and the *)
(* filesystem and log they act on.                                         *)
(*                                                                         *)
(* Python strings are TLA+ strings (TLC evaluates Len, SubSeq and \o on    *)
(* them), so splitting, stripping, integer parsing and path formatting are *)
(* computed character by character as the code computes them.              *)
(***************************************************************************)
EXTENDS Integers, Sequences, FiniteSets, TLC

(***************************************************************************)
(* Bounds of the model.                                                    *)
(***************************************************************************)
MaxLines == 3
MaxStart == 3
MaxEnd == 2
MaxCalls == 2

(***************************************************************************)
(* Python values.                                                          *)
(***************************************************************************)
\* Python's None, kept apart from every string the program handles.
None == "<None>"

\* "{}".format(v) for a string or None.
Format(v) == IF v = None THEN "None" ELSE v

\* "{}".format(n) for an integer.
FormatInt(n) == ToString(n)

Char(s, i) == SubSeq(s, i, i)

Whitespace == {" ", "\t", "\n", "\r", "\f"}

Digits == {"0", "1", "2", "3", "4", "5", "6", "7", "8", "9"}

DigitValue(c) ==
    CASE c = "0" -> 0 [] c = "1" -> 1 [] c = "2" -> 2 [] c = "3" -> 3
      [] c = "4" -> 4 [] c = "5" -> 5 [] c = "6" -> 6 [] c = "7" -> 7
      [] c = "8" -> 8 [] c = "9" -> 9

\* str.rstrip(): drop trailing whitespace.
RECURSIVE Rstrip(_)
Rstrip(s) ==
    IF Len(s) > 0 /\ Char(s, Len(s)) \in Whitespace
    THEN Rstrip(SubSeq(s, 1, Len(s) - 1))
    ELSE s

\* str.lstrip(): drop leading whitespace.
RECURSIVE Lstrip(_)
Lstrip(s) ==
    IF Len(s) > 0 /\ Char(s, 1) \in Whitespace
    THEN Lstrip(SubSeq(s, 2, Len(s)))
    ELSE s

\* str.lstrip(chars) for a one-character set, as in ext.lstrip('.').
RECURSIVE LstripChar(_, _)
LstripChar(s, c) ==
    IF Len(s) > 0 /\ Char(s, 1) = c
    THEN LstripChar(SubSeq(s, 2, Len(s)), c)
    ELSE s

\* Index of the first occurrence of the one-character separator, 0 if none.
RECURSIVE FindChar(_, _, _)
FindChar(s, c, i) ==
    IF i > Len(s) THEN 0
    ELSE IF Char(s, i) = c THEN i
    ELSE FindChar(s, c, i + 1)

\* str.split(sep) for a one-character separator: always at least one field.
RECURSIVE Split(_, _)
Split(s, sep) ==
    LET i == FindChar(s, sep, 1)
    IN  IF i = 0 THEN <<s>>
        ELSE <<SubSeq(s, 1, i - 1)>> \o Split(SubSeq(s, i + 1, Len(s)), sep)

\* str.replace(a, b) for one-character a and b.
RECURSIVE Replace(_, _, _)
Replace(s, a, b) ==
    IF Len(s) = 0 THEN ""
    ELSE (IF Char(s, 1) = a THEN b ELSE Char(s, 1))
            \o Replace(SubSeq(s, 2, Len(s)), a, b)

\* str.startswith(prefix).
StartsWith(s, prefix) ==
    /\ Len(s) >= Len(prefix)
    /\ SubSeq(s, 1, Len(prefix)) = prefix

AllDigits(s) == Len(s) > 0 /\ \A i \in 1..Len(s) : Char(s, i) \in Digits

RECURSIVE DigitsValue(_)
DigitsValue(s) ==
    IF Len(s) = 0 THEN 0
    ELSE 10 * DigitsValue(SubSeq(s, 1, Len(s) - 1)) + DigitValue(Char(s, Len(s)))

\* int(s): surrounding whitespace is ignored, an optional sign, then digits.
\* IsIntLiteral(s) is FALSE exactly when int(s) raises ValueError.
Unsigned(s) ==
    LET t == Lstrip(Rstrip(s))
    IN  IF Len(t) > 0 /\ Char(t, 1) \in {"+", "-"} THEN SubSeq(t, 2, Len(t)) ELSE t

IsIntLiteral(s) == AllDigits(Unsigned(s))

PyInt(s) ==
    LET t == Lstrip(Rstrip(s))
        v == DigitsValue(Unsigned(s))
    IN  IF Len(t) > 0 /\ Char(t, 1) = "-" THEN 0 - v ELSE v

\* os.path.join(a, b) on POSIX: an absolute b discards a.
PathJoin2(a, b) ==
    IF StartsWith(b, "/") THEN b
    ELSE IF a = "" \/ Char(a, Len(a)) = "/" THEN a \o b
    ELSE a \o "/" \o b

PathJoin(a, b, c) == PathJoin2(PathJoin2(a, b), c)


(***************************************************************************)
(* Program state.                                                          *)
(***************************************************************************)
VARIABLES
    has_magic_lib,  \* module global: `import magic` succeeded
    magic_str,      \* the installed python-magic returns str (TRUE) or bytes
    jpe_alias,      \* mimetypes maps image/jpeg to ".jpe" (TRUE) or ".jpg"
    args,           \* parsed command line of main()
    nlines,         \* number of lines of the manifest file
    pc,             \* where the run is
    pos,            \* lines of infile consumed so far by islice
    counter,        \* next value enumerate() yields; the counter argument
    files,          \* filesystem: path -> content of every regular file
    dirs,           \* filesystem: set of directories
    log,            \* entries written through the logger
    parsed,         \* history: manifest line numbers passed to parse_line
    fetched,        \* history: manifest line numbers for which a GET was issued
    writer,         \* history: path -> expected digest of the record that wrote it
    owners,         \* history: path -> the records (name, image_id, face_id) that wrote it
    session,        \* module global: the requests session and its retry limit
    last            \* history: the last call and its outcome

vars == <<has_magic_lib, magic_str, jpe_alias, args, nlines, pc, pos, counter,
          files, dirs, log, parsed, fetched, writer, owners, session, last>>

build == <<has_magic_lib, magic_str, jpe_alias>>

(***************************************************************************)
(* The manifest.  Line 1 is the header; record lines are tab separated.    *)
(***************************************************************************)
datasetpath == "d"

Header == "name\timage_id\tface_id\turl\tbbox\tsha256\n"

Url == "http://h/a.jpg"

\* Byte contents a server may return.  Each stands for a body with the
\* named leading bytes; the sniffers below are tables over them.
Bodies == {"JFIF", "ADOBEJPEG", "ICO", "PSD", "HTML", "NOMIME"}

\* hashlib.sha256(raw_bytes).hexdigest(): collision free on Bodies.
hashbinary(raw_bytes) == "sha256:" \o raw_bytes

ManifestLine(name, image_id, face_id, url, bbox, sha256) ==
    name \o "\t" \o image_id \o "\t" \o face_id \o "\t" \o url \o "\t"
         \o bbox \o "\t" \o sha256 \o "\n"

\* Records of the manifest: two spellings of one name, two faces of one
\* image, and a record for a body imghdr does not recognise.
WellFormedLines ==
    { ManifestLine("a b", "1", "1", Url, "1,1,2,2", hashbinary("JFIF")),
      ManifestLine("a_b", "1", "2", Url, "1,1,2,2", hashbinary("JFIF")),
      ManifestLine("a b", "1", "1", Url, "1,1,2,2", hashbinary("ADOBEJPEG")) }

\* Lines whose bounding box cannot be cropped: inverted, or three integers.
BadBoxLines ==
    { ManifestLine("a b", "1", "1", Url, bb, hashbinary("JFIF")) :
        bb \in {"2,2,1,1", "1,1,2"} }

MalformedLines ==
    { "a b\t1\n",
      ManifestLine("a b", "x", "1", Url, "1,1,2,2", hashbinary("JFIF")),
      ManifestLine("a b", "1", "1", Url, "1,x,2,2", hashbinary("JFIF")) }

RecordLines == WellFormedLines \cup BadBoxLines \cup MalformedLines

\* The text of manifest line k (1-based): the header, or any record line.
LinesAt(k) == IF k = 1 THEN {Header} ELSE RecordLines

(***************************************************************************)
(* parse_line                                                              *)
(***************************************************************************)
NoRecord == [exc |-> None, name |-> "", image_id |-> 0, face_id |-> 0,
             url |-> "", bbox |-> <<>>, sha256 |-> ""]

\* The tuple parse_line returns, or the exception it raises (exc).
parse_line(line) ==
    LET parts == Split(Rstrip(line), "\t")
        boxes == Split(parts[5], ",")
    IN  IF Len(parts) < 2 THEN [NoRecord EXCEPT !.exc = "IndexError"]
        ELSE IF ~IsIntLiteral(parts[2]) THEN [NoRecord EXCEPT !.exc = "ValueError"]
        ELSE IF Len(parts) < 3 THEN [NoRecord EXCEPT !.exc = "IndexError"]
        ELSE IF ~IsIntLiteral(parts[3]) THEN [NoRecord EXCEPT !.exc = "ValueError"]
        ELSE IF Len(parts) < 5 THEN [NoRecord EXCEPT !.exc = "IndexError"]
        ELSE IF \E i \in 1..Len(boxes) : ~IsIntLiteral(boxes[i])
             THEN [NoRecord EXCEPT !.exc = "ValueError"]
        ELSE IF Len(parts) < 6 THEN [NoRecord EXCEPT !.exc = "IndexError"]
        ELSE [exc |-> None,
              name |-> parts[1],
              image_id |-> PyInt(parts[2]),
              face_id |-> PyInt(parts[3]),
              url |-> parts[4],
              bbox |-> [i \in 1..Len(boxes) |-> PyInt(boxes[i])],
              sha256 |-> parts[6]]

(***************************************************************************)
(* Logging.                                                                *)
(***************************************************************************)
LogEntry(level, number, msg, url) ==
    [level |-> level, line |-> number, msg |-> msg, url |-> url]

(***************************************************************************)
(* Libraries the script calls.                                             *)
(***************************************************************************)
\* imghdr.what(path): decided by the first bytes of the file.
imghdr_what(content) ==
    CASE content = "JFIF" -> "jpeg"
      [] OTHER -> None

\* The MIME type libmagic finds in a buffer.
magic_mime(content) ==
    CASE content = "JFIF" -> "image/jpeg"
      [] content = "ADOBEJPEG" -> "image/jpeg"
      [] content = "ICO" -> "image/x-icon"
      [] content = "PSD" -> "image/vnd.adobe.photoshop"
      [] content = "HTML" -> "text/html"
      [] OTHER -> None

\* mimetypes.guess_extension(type).  The table is keyed by str: a bytes
\* argument is never found, and an unknown type gives None.
guess_extension(mimetype, is_bytes) ==
    IF is_bytes THEN None
    ELSE CASE mimetype = "image/jpeg" -> IF jpe_alias THEN ".jpe" ELSE ".jpg"
           [] mimetype = "image/x-icon" -> ".ico"
           [] mimetype = "text/html" -> ".html"
           [] OTHER -> None

\* File extensions Pillow can save to (Image.save picks the format by it).
PillowSaveExt == {"jpeg", "jpg", "jpe", "png", "gif", "bmp", "ico"}

\* Bodies Pillow can decode.
PillowDecodes(content) == content \in {"JFIF", "ADOBEJPEG", "ICO", "PSD"}


(***************************************************************************)
(* get_referer and urllib.parse.urlparse                                   *)
(***************************************************************************)
UpperLetters == "ABCDEFGHIJKLMNOPQRSTUVWXYZ"

LowerLetters == "abcdefghijklmnopqrstuvwxyz"

UpperSet == { Char(UpperLetters, i) : i \in 1..26 }

Alpha == UpperSet \cup { Char(LowerLetters, i) : i \in 1..26 }

\* str.lower() of one upper-case letter.
LowerOf == [c \in UpperSet |-> Char(LowerLetters, FindChar(UpperLetters, c, 1))]

IsAlpha(c) == c \in Alpha

\* urllib.parse.scheme_chars
scheme_chars == Alpha \cup Digits \cup {"+", "-", "."}

IsSchemeChar(c) == c \in scheme_chars

\* str.lower()
RECURSIVE Lower(_)
Lower(s) ==
    IF \A i \in 1..Len(s) : Char(s, i) \notin UpperSet THEN s
    ELSE (IF Char(s, 1) \in UpperSet THEN LowerOf[Char(s, 1)] ELSE Char(s, 1))
            \o Lower(SubSeq(s, 2, Len(s)))

\* urlsplit removes tab, CR and LF wherever they are in the url.
RECURSIVE RemoveUnsafe(_)
RemoveUnsafe(s) ==
    IF \A i \in 1..Len(s) : Char(s, i) \notin {"\t", "\r", "\n"} THEN s
    ELSE (IF Char(s, 1) \in {"\t", "\r", "\n"} THEN "" ELSE Char(s, 1))
            \o RemoveUnsafe(SubSeq(s, 2, Len(s)))

\* _splitnetloc: index of the first of '/', '?', '#' at or after start,
\* Len(s) + 1 if there is none.
NetlocEnd(s, start) ==
    LET found == { i \in { FindChar(s, "/", start), FindChar(s, "?", start),
                           FindChar(s, "#", start) } : i # 0 }
    IN  IF found = {} THEN Len(s) + 1
        ELSE CHOOSE i \in found : \A j \in found : i <= j

\* The netloc of what follows the scheme, checked for square brackets: the
\* result of urlparse, or the ValueError it raises for a netloc with one
\* square bracket and not the other.
SplitNetloc(scheme, netloc) ==
    IF (FindChar(netloc, "[", 1) # 0) # (FindChar(netloc, "]", 1) # 0)
    THEN [exc |-> "ValueError", scheme |-> "", netloc |-> ""]
    ELSE [exc |-> None, scheme |-> scheme, netloc |-> netloc]

\* What follows the scheme: a netloc when it starts with two slashes.
SplitRest(scheme, rest) ==
    IF StartsWith(rest, "//")
    THEN SplitNetloc(scheme, SubSeq(rest, 3, NetlocEnd(rest, 3) - 1))
    ELSE SplitNetloc(scheme, "")

\* The scheme is what precedes the first colon when it is a letter followed
\* by scheme characters; it is put in lower case.
SplitScheme(cleaned, colon) ==
    IF /\ colon > 1
       /\ IsAlpha(Char(cleaned, 1))
       /\ \A i \in 1..(colon - 1) : IsSchemeChar(Char(cleaned, i))
    THEN SplitRest(Lower(SubSeq(cleaned, 1, colon - 1)), SubSeq(cleaned, colon + 1, Len(cleaned)))
    ELSE SplitRest("", cleaned)

\* urlsplit(url) once the url is stripped of leading whitespace and of tabs
\* and newlines.
urlsplit(cleaned) == SplitScheme(cleaned, FindChar(cleaned, ":", 1))

\* urlparse(url): its scheme and netloc, or the ValueError it raises.
urlparse(url) == urlsplit(RemoveUnsafe(Lstrip(url)))

\* get_referer without the rewrite of the fansshare host.
verbatim_referer_of(parsed_uri) ==
    IF parsed_uri.exc # None
    THEN [exc |-> parsed_uri.exc, domain |-> ""]
    ELSE [exc |-> None, domain |-> parsed_uri.scheme \o "://" \o parsed_uri.netloc]

get_referer_verbatim(url) == verbatim_referer_of(urlparse(url))

\* '{}://{}'.format(scheme, netloc) after the fansshare rewrite of netloc.
referer_of(parsed_uri) ==
    IF parsed_uri.exc # None
    THEN [exc |-> parsed_uri.exc, domain |-> ""]
    ELSE [exc |-> None,
          domain |-> parsed_uri.scheme \o "://"
                        \o (IF StartsWith(parsed_uri.netloc, "fansshare")
                            THEN "www." \o parsed_uri.netloc
                            ELSE parsed_uri.netloc)]

\* get_referer(url): the referer it returns, or the exception of urlparse.
get_referer(url) == referer_of(urlparse(url))

\* generate_headers(url)
headers_of(referer) ==
    IF referer.exc # None
    THEN [exc |-> referer.exc, Referer |-> ""]
    ELSE [exc |-> None, Referer |-> referer.domain]

generate_headers(url) == headers_of(get_referer(url))

(***************************************************************************)
(* download_image                                                          *)
(***************************************************************************)
\* What session.get() can produce: an exception of requests, or a response.
TransportErrors == {"ConnectionError", "Timeout", "TooManyRedirects", "RequestException"}

Response(status_code, content_type, content) ==
    [exc |-> None, status_code |-> status_code,
     content_type |-> content_type, content |-> content]

Raised(exc) ==
    [exc |-> exc, status_code |-> 0, content_type |-> None, content |-> ""]

\* response.raise_for_status(): HTTPError for 4xx and 5xx, nothing otherwise.
raise_for_status(status_code) == 400 <= status_code /\ status_code < 600

\* How a call of download_image ends: the value it returns (ok = a
\* response, ~ok = None), the entries it logs, and the exception that
\* leaves it (exc), if any.
Returned(resp) == [ok |-> TRUE, response |-> resp, log |-> <<>>, exc |-> None]

Failed(number, msg, url) ==
    [ok |-> FALSE, response |-> Raised(None),
     log |-> <<LogEntry("ERROR", number, msg, url)>>, exc |-> None]

\* download_image without the comparison of digests.
download_image_unverified(number, url, sha256, resp) ==
    IF generate_headers(url).exc # None
    THEN Failed(number, generate_headers(url).exc, url)
    ELSE IF resp.exc # None THEN Failed(number, resp.exc, url)
    ELSE IF resp.status_code # 200 /\ raise_for_status(resp.status_code)
         THEN Failed(number, "HTTPError", url)
    ELSE IF has_magic_lib /\ (magic_str \/ magic_mime(resp.content) = None)
         THEN Failed(number, "AttributeError", url)
    ELSE IF ~has_magic_lib /\ resp.content_type = None
         THEN Failed(number, "KeyError", url)
    ELSE LET content_type == IF has_magic_lib THEN magic_mime(resp.content)
                             ELSE resp.content_type
         IN  IF content_type = None \/ ~StartsWith(content_type, "image")
             THEN Failed(number, "Invalid content-type", url)
             ELSE Returned(resp)

\* download_image with the except clauses for the exceptions of requests
\* taken away.
download_image_unhandled(number, url, sha256, resp) ==
    IF generate_headers(url).exc # None
    THEN Failed(number, generate_headers(url).exc, url)
    ELSE IF resp.exc # None
    THEN [ok |-> FALSE, response |-> Raised(None), log |-> <<>>, exc |-> resp.exc]
    ELSE IF resp.status_code # 200 /\ raise_for_status(resp.status_code)
         THEN Failed(number, "HTTPError", url)
    ELSE IF has_magic_lib /\ (magic_str \/ magic_mime(resp.content) = None)
         THEN Failed(number, "AttributeError", url)
    ELSE IF ~has_magic_lib /\ resp.content_type = None
         THEN Failed(number, "KeyError", url)
    ELSE LET content_type == IF has_magic_lib THEN magic_mime(resp.content)
                             ELSE resp.content_type
         IN  IF content_type = None \/ ~StartsWith(content_type, "image")
             THEN Failed(number, "Invalid content-type", url)
             ELSE IF hashbinary(resp.content) # sha256
             THEN Failed(number, "SHA 256 hash different", url)
             ELSE Returned(resp)

\* resp is what session.get() produces when it is called; every exception
\* raised inside the try block ends in one of the except clauses.
download_image(number, url, sha256, resp) ==
    IF generate_headers(url).exc # None
    THEN Failed(number, generate_headers(url).exc, url)
    ELSE IF resp.exc # None THEN Failed(number, resp.exc, url)
    ELSE IF resp.status_code # 200 /\ raise_for_status(resp.status_code)
         THEN Failed(number, "HTTPError", url)
    ELSE IF has_magic_lib /\ (magic_str \/ magic_mime(resp.content) = None)
         \* content_type.decode on a str or on None
         THEN Failed(number, "AttributeError", url)
    ELSE IF ~has_magic_lib /\ resp.content_type = None
         THEN Failed(number, "KeyError", url)
    ELSE LET content_type == IF has_magic_lib THEN magic_mime(resp.content)
                             ELSE resp.content_type
         IN  IF content_type = None \/ ~StartsWith(content_type, "image")
             THEN Failed(number, "Invalid content-type", url)
             ELSE IF hashbinary(resp.content) # sha256
             THEN Failed(number, "SHA 256 hash different", url)
             ELSE Returned(resp)

(***************************************************************************)
(* The filesystem.                                                         *)
(***************************************************************************)
EmptyFiles == [q \in {} |-> ""]

\* os.path.exists
Exists(fs_files, fs_dirs, path) == path \in fs_dirs \/ path \in DOMAIN fs_files

\* The directories os.makedirs(path) leaves in existence.
Makedirs(fs_dirs, path) ==
    fs_dirs \cup {path}
            \cup { SubSeq(path, 1, i - 1) : i \in {j \in 2..Len(path) : Char(path, j) = "/"} }

\* A write that appends to the file that is there (mode 'ab').
WriteFile_append(fs_files, path, content) ==
    [q \in DOMAIN fs_files \cup {path} |->
        IF q # path THEN fs_files[q]
        ELSE IF path \in DOMAIN fs_files THEN fs_files[path] \o content ELSE content]

\* open(path, 'wb') + write(content) + close
WriteFile(fs_files, path, content) ==
    [q \in DOMAIN fs_files \cup {path} |-> IF q = path THEN content ELSE fs_files[q]]

\* os.remove(path)
RemoveFile(fs_files, path) == [q \in DOMAIN fs_files \ {path} |-> fs_files[q]]

\* shutil.move(src, dst) of a regular file onto a file path
MoveFile(fs_files, src, dst) ==
    IF src = dst THEN fs_files
    ELSE RemoveFile(WriteFile(fs_files, dst, fs_files[src]), src)

\* The bytes Image.crop(bbox).save() writes for the image decoded from content.
RECURSIVE FormatBox(_)
FormatBox(bbox) ==
    IF Len(bbox) = 0 THEN ""
    ELSE FormatInt(Head(bbox)) \o (IF Len(bbox) > 1 THEN "," ELSE "") \o FormatBox(Tail(bbox))

CropOf(content, bbox) == "crop(" \o content \o ";" \o FormatBox(bbox) \o ")"

\* Image.crop(box) raises ValueError unless box is four numbers with
\* left <= right and upper <= lower.
CropRaises(bbox) ==
    \/ Len(bbox) # 4
    \/ bbox[3] < bbox[1]
    \/ bbox[4] < bbox[2]


(***************************************************************************)
(* save_image                                                              *)
(***************************************************************************)
\* Filesystem faults a call may meet: none, os.makedirs of the images or of
\* the faces directory failing, open() of the provisional file failing.
IoFaults == {"ok", "images_dir", "open", "faces_dir"}

\* Faults of Pillow while it encodes the face image.
PilFaults == {"ok", "IOError"}

\* "{name}_{image_id}"
ImageFilename(name, image_id) == name \o "_" \o FormatInt(image_id)

\* "{name}_{image_id}_{face_id}.{ext}"
FaceFilename(name, image_id, face_id, ext) ==
    name \o "_" \o FormatInt(image_id) \o "_" \o FormatInt(face_id) \o "." \o Format(ext)

\* How a call of save_image ends: the filesystem it leaves, what it logged,
\* the value it returned (ret) or the exception it raised (exc), and the
\* paths it wrote.
SaveResult(fs_files, fs_dirs, entries, ret, exc, touched) ==
    [files |-> fs_files, dirs |-> fs_dirs, log |-> entries,
     ret |-> ret, exc |-> exc, touched |-> touched]

\* The face step of save_image, after the full image is at newpath.
save_face_step(number, url, content, name, image_id, face_id, bbox, filetype, fs_files, fs_dirs, newpath, touched, io, pil) ==
    LET output_dir == PathJoin(datasetpath, "faces", name)
        made == IF Exists(fs_files, fs_dirs, output_dir) THEN fs_dirs
                ELSE Makedirs(fs_dirs, output_dir)
        facepath == PathJoin2(output_dir, FaceFilename(name, image_id, face_id, filetype))
    IN  IF ~PillowDecodes(content)
        THEN SaveResult(fs_files, fs_dirs, <<LogEntry("ERROR", number, "IOError", url)>>,
                        FALSE, None, touched)
        ELSE IF ~Exists(fs_files, fs_dirs, output_dir) /\ io = "faces_dir"
        THEN SaveResult(fs_files, fs_dirs, <<LogEntry("ERROR", number, "IOError", url)>>,
                        FALSE, None, touched)
        ELSE IF CropRaises(bbox)
        THEN SaveResult(fs_files, made, <<>>, FALSE, "ValueError", touched)
        ELSE IF Format(filetype) \notin PillowSaveExt
        THEN SaveResult(fs_files, made, <<>>, FALSE, "ValueError", touched)
        ELSE IF pil = "IOError"
        THEN SaveResult(fs_files, made, <<LogEntry("ERROR", number, "IOError", url)>>,
                        FALSE, None, touched)
        ELSE SaveResult(WriteFile(fs_files, facepath, CropOf(content, bbox)), made, <<>>,
                        TRUE, None, touched \cup {facepath})

\* move_step with the face step taken whatever save_face is.
move_step_always_face(number, url, content, name, image_id, face_id, bbox, save_face, filetype, fs_files, fs_dirs, outpath, io, pil) ==
    save_face_step(number, url, content, name, image_id, face_id, bbox, filetype,
                   MoveFile(fs_files, outpath, outpath \o "." \o Format(filetype)), fs_dirs,
                   outpath \o "." \o Format(filetype),
                   {outpath, outpath \o "." \o Format(filetype)}, io, pil)

\* The rename of the provisional file, and what follows it.
move_step(number, url, content, name, image_id, face_id, bbox, save_face, filetype, fs_files, fs_dirs, outpath, io, pil) ==
    LET newpath == outpath \o "." \o Format(filetype)
        moved == MoveFile(fs_files, outpath, newpath)
    IN  IF save_face
        THEN save_face_step(number, url, content, name, image_id, face_id, bbox, filetype,
                            moved, fs_dirs, newpath, {outpath, newpath}, io, pil)
        ELSE SaveResult(moved, fs_dirs, <<>>, TRUE, None, {outpath, newpath})

save_image(number, url, response, name, image_id, face_id, bbox, save_face, fs_files, fs_dirs, io, pil) ==
    LET output_dir == PathJoin(datasetpath, "images", name)
        made == IF Exists(fs_files, fs_dirs, output_dir) THEN fs_dirs
                ELSE Makedirs(fs_dirs, output_dir)
        outpath == PathJoin2(output_dir, ImageFilename(name, image_id))
        written == WriteFile(fs_files, outpath, response.content)
        sniffed == imghdr_what(written[outpath])
        cannot == <<LogEntry("ERROR", number, "Cannot determine file type", url)>>
        mimetype == magic_mime(response.content)
        guessed == guess_extension(mimetype, ~magic_str)
        ext == LstripChar(guessed, ".")
    IN  IF ~Exists(fs_files, fs_dirs, output_dir) /\ io = "images_dir"
        THEN SaveResult(fs_files, fs_dirs, <<>>, FALSE, "OSError", {})
        ELSE IF io = "open"
        THEN SaveResult(fs_files, made, <<>>, FALSE, "OSError", {})
        ELSE IF sniffed = None /\ ~has_magic_lib
        THEN SaveResult(RemoveFile(written, outpath), made, cannot, FALSE, None, {outpath})
        ELSE IF sniffed = None /\ has_magic_lib
        THEN IF mimetype = None
             THEN SaveResult(written, made, cannot, FALSE, None, {outpath})
             ELSE IF guessed = None
             \* None.lstrip('.')
             THEN SaveResult(written, made, <<>>, FALSE, "AttributeError", {outpath})
             ELSE move_step(number, url, response.content, name, image_id, face_id, bbox,
                            save_face, IF ext = "jpe" THEN "jpeg" ELSE sniffed,
                            written, made, outpath, io, pil)
        ELSE move_step(number, url, response.content, name, image_id, face_id, bbox,
                       save_face, sniffed, written, made, outpath, io, pil)


(***************************************************************************)
(* main: the batch driver                                                  *)
(***************************************************************************)
\* What the server answers in a run: a transport failure, an error status,
\* a redirect status with a valid image, a missing or wrong content-type
\* header, a body that is no image, and valid images of each kind.
RunResponses ==
    { Raised("ConnectionError"),
      Response(404, "image/jpeg", "JFIF"),
      Response(304, "image/jpeg", "JFIF"),
      Response(200, None, "JFIF"),
      Response(200, "text/html", "JFIF"),
      Response(200, "image/jpeg", "HTML"),
      Response(200, "image/jpeg", "JFIF"),
      Response(200, "image/jpeg", "ADOBEJPEG") }

\* One fault at a time: <<filesystem fault, Pillow fault>>.
Faults == { <<io, "ok">> : io \in IoFaults } \cup { <<"ok", pil>> : pil \in PilFaults }

\* The installed libraries: python-magic absent, returning bytes, or
\* returning str; the jpeg alias of mimetypes matters only for str.
Builds ==
    { <<m, s, j>> \in BOOLEAN \X BOOLEAN \X BOOLEAN :
        /\ (~m => ~s)
        /\ (~s => ~j) }

NoCall == [op |-> "none"]

\* The arguments argparse accepts and the asserts of main() let through.
Args ==
    [start_at_line : 1..MaxStart, end_at_line : 0..MaxEnd, crop_face : BOOLEAN,
     max_retries : {1, 3}]

\* setup_session(max_retries): the session main() creates before the loop.
setup_session(max_retries) == [max_retries |-> max_retries]

NoOwners == [q \in {} |-> {}]

\* The records that wrote each path, after record key wrote the paths touched.
Wrote(history, touched, key) ==
    [q \in DOMAIN history \cup touched |->
        (IF q \in DOMAIN history THEN history[q] ELSE {})
            \cup (IF q \in touched THEN {key} ELSE {})]

Init ==
    /\ \E b \in Builds :
        /\ has_magic_lib = b[1]
        /\ magic_str = b[2]
        /\ jpe_alias = b[3]
    /\ args \in Args
    /\ nlines \in 1..MaxLines
    /\ pc = "start"
    /\ pos = 0
    /\ counter = 0
    /\ files = EmptyFiles
    /\ dirs = {}
    /\ log = <<>>
    /\ parsed = {}
    /\ fetched = <<>>
    /\ writer = EmptyFiles
    /\ owners = NoOwners
    /\ session = setup_session(args.max_retries)
    /\ last = NoCall

\* islice(infile, start_at_line, end_at_line): the two indices main() computes.
NoStop == -1

islice_start == args.start_at_line - 1

islice_stop == IF args.end_at_line > 0 THEN args.end_at_line + 1 ELSE NoStop

\* enumerate() started at the 0-based index given to islice.
enumerate_start_index == islice_start

\* enumerate(..., start_at_line + 1): the number that goes with the first
\* line read.
enumerate_start == islice_start + 1

\* The 0-based index of the item islice takes next: it first consumes the
\* items before its start.
NextIndex == IF pos < islice_start THEN islice_start ELSE pos

\* islice yields an item: the file has one at NextIndex, before the stop.
HasNext ==
    /\ NextIndex < nlines
    /\ islice_stop = NoStop \/ NextIndex < islice_stop

\* main() without the try/except around open(): the error leaves main().
OpenManifest_unhandled ==
    /\ pc = "start"
    /\ \E opened \in BOOLEAN :
        /\ IF opened
           THEN /\ pc' = "loop"
                /\ counter' = enumerate_start
           ELSE /\ pc' = "crashed"
                /\ counter' = counter
        /\ log' = log
        /\ last' = [op |-> "open", opened |-> opened]
    /\ UNCHANGED <<build, args, nlines, pos, files, dirs, parsed, fetched, writer, owners, session>>

\* open(args.inputfile): the file opens and the loop starts, or the
\* EnvironmentError is logged and main returns.
OpenManifest ==
    /\ pc = "start"
    /\ \E opened \in BOOLEAN :
        /\ IF opened
           THEN /\ pc' = "loop"
                /\ counter' = enumerate_start
                /\ log' = log
           ELSE /\ pc' = "done"
                /\ counter' = counter
                /\ log' = Append(log, LogEntry("ERROR", 0, "EnvironmentError", ""))
        /\ last' = [op |-> "open", opened |-> opened]
    /\ UNCHANGED <<build, args, nlines, pos, files, dirs, parsed, fetched, writer, owners, session>>

\* parse_line(line) for each line a manifest can hold.
ParsedLines == [line \in RecordLines \cup {Header} |-> parse_line(line)]

\* download_image with a second session.get() after a response it rejects.
GetCalls_again(k, url, dl) == IF dl.ok THEN <<k>> ELSE <<k, k>>

\* The calls of session.get() one call of download_image makes for line k:
\* one, unless the headers could not be built.
GetCalls(k, url, dl) == IF generate_headers(url).exc # None THEN <<>> ELSE <<k>>

Outcome(k, number, outcome, exc, touched) ==
    [op |-> "iterate", line |-> k, number |-> number, outcome |-> outcome, exc |-> exc,
     touched |-> touched]

\* One iteration of the for loop: read the next line, parse it, download,
\* save.  An EnvironmentError leaves the loop through the except clause of
\* main(); any other exception is not caught anywhere.
Iterate ==
    /\ pc = "loop"
    /\ HasNext
    /\ LET k == NextIndex + 1
       IN  /\ pos' = k
           /\ counter' = counter + 1
           /\ parsed' = parsed \cup {k}
           /\ \E line \in LinesAt(k) :
               LET rec == ParsedLines[line]
                   info == LogEntry("INFO", counter, "Processing line", rec.url)
               IN  IF rec.exc # None
                   THEN /\ pc' = "crashed"
                        /\ last' = Outcome(k, counter, "parse_error", rec.exc, {})
                        /\ UNCHANGED <<files, dirs, log, fetched, writer, owners>>
                   ELSE \E resp \in RunResponses :
                            LET dl == download_image(counter, rec.url, rec.sha256, resp)
                            IN  /\ fetched' = fetched \o GetCalls(k, rec.url, dl)
                                /\ IF ~dl.ok
                                    THEN /\ pc' = "loop"
                                         /\ log' = log \o <<info>> \o dl.log
                                         /\ last' = Outcome(k, counter, "fetch_failed", None, {})
                                         /\ UNCHANGED <<files, dirs, writer, owners>>
                                    ELSE \E fault \in Faults :
                                        LET sv == save_image(counter, rec.url, dl.response,
                                                             Replace(rec.name, " ", "_"),
                                                             rec.image_id, rec.face_id, rec.bbox,
                                                             args.crop_face, files, dirs, fault[1], fault[2])
                                        IN  /\ files' = sv.files
                                            /\ dirs' = sv.dirs
                                            /\ writer' = [q \in DOMAIN sv.files |->
                                                            IF q \in sv.touched THEN rec.sha256
                                                            ELSE writer[q]]
                                            /\ owners' = Wrote(owners, sv.touched,
                                                               <<rec.name, rec.image_id, rec.face_id>>)
                                            /\ IF sv.exc = None
                                               THEN /\ pc' = "loop"
                                                    /\ log' = log \o <<info>> \o sv.log
                                                    /\ last' = Outcome(k, counter,
                                                          IF sv.ret THEN "saved" ELSE "save_failed", None, sv.touched)
                                               ELSE IF sv.exc = "OSError"
                                               THEN /\ pc' = "done"
                                                    /\ log' = log \o <<info>> \o sv.log
                                                          \o <<LogEntry("ERROR", 0, "EnvironmentError", "")>>
                                                    /\ last' = Outcome(k, counter, "save_raised", sv.exc, sv.touched)
                                               ELSE /\ pc' = "crashed"
                                                    /\ log' = log \o <<info>> \o sv.log
                                                    /\ last' = Outcome(k, counter, "save_raised", sv.exc, sv.touched)
    /\ UNCHANGED <<build, args, nlines, session>>

\* The iterator is exhausted: the with block closes the file and main returns.
Exhausted ==
    /\ pc = "loop"
    /\ ~HasNext
    /\ pc' = "done"
    /\ last' = [op |-> "exhausted"]
    /\ UNCHANGED <<build, args, nlines, pos, counter, files, dirs, log, parsed, fetched, writer, owners, session>>

Next == OpenManifest \/ Iterate \/ Exhausted

Spec == Init /\ [][Next]_vars


(***************************************************************************)
(* download_image on its own: every response against every expected digest *)
(***************************************************************************)
Statuses == {200, 204, 304, 404, 500}

ContentTypes == {None, "image/jpeg", "text/html"}

Responses ==
    { Raised(e) : e \in TransportErrors }
        \cup { Response(st, ct, b) : st \in Statuses, ct \in ContentTypes, b \in Bodies }

Digests == { hashbinary(b) : b \in {"JFIF", "ADOBEJPEG", "HTML"} }

InitCall ==
    /\ \E b \in Builds :
        /\ has_magic_lib = b[1]
        /\ magic_str = b[2]
        /\ jpe_alias = b[3]
    /\ args = [start_at_line |-> 2, end_at_line |-> 0, crop_face |-> FALSE, max_retries |-> 1]
    /\ nlines = 1
    /\ pc = "call"
    /\ pos = 0
    /\ counter = 1
    /\ files = EmptyFiles
    /\ dirs = {}
    /\ log = <<>>
    /\ parsed = {}
    /\ fetched = <<>>
    /\ writer = EmptyFiles
    /\ owners = NoOwners
    /\ session = setup_session(args.max_retries)
    /\ last = NoCall

\* A url urlparse raises on: a netloc with an opening square bracket only.
BadUrl == "http://[h/a.jpg"

\* One call download_image(counter, url, sha256) answered by resp.  When
\* the headers cannot be built no GET is made and there is no response.
Download ==
    /\ pc = "call"
    /\ \E url \in {Url, BadUrl}, resp \in Responses, sha256 \in Digests :
        LET dl == download_image(counter, url, sha256, resp)
        IN  /\ log' = log \o dl.log
            /\ last' = [op |-> "download_image", number |-> counter, url |-> url,
                        resp |-> IF generate_headers(url).exc = None THEN resp
                                 ELSE Raised(None),
                        sha256 |-> sha256, ok |-> dl.ok, exc |-> dl.exc]
    /\ pc' = "returned"
    /\ UNCHANGED <<build, args, nlines, pos, counter, files, dirs, parsed, fetched, writer, owners, session>>

SpecFetch == InitCall /\ [][Download]_vars

(***************************************************************************)
(* save_image on its own: every body, bounding box and fault               *)
(***************************************************************************)
BBoxes == { <<1, 1, 2, 2>>, <<2, 2, 1, 1>>, <<1, 1, 2>> }

\* One call save_image(counter, url, response, datasetpath, name, ...), on
\* the filesystem the calls before it left; repeated tells that the call
\* before it had the same bytes, bounding box, crop flag and faults.
Save ==
    /\ pc = "call"
    /\ counter <= MaxCalls
    /\ \E content \in Bodies, bbox \in BBoxes, save_face \in BOOLEAN, fault \in Faults :
        LET sv == save_image(counter, Url, Response(200, "image/jpeg", content),
                             "a_b", 1, 1, bbox, save_face, files, dirs, fault[1], fault[2])
        IN  /\ files' = sv.files
            /\ dirs' = sv.dirs
            /\ log' = log \o sv.log
            /\ writer' = [q \in DOMAIN sv.files |->
                            IF q \in sv.touched THEN hashbinary(content) ELSE writer[q]]
            /\ pc' = IF sv.exc = None THEN "call" ELSE "raised"
            /\ last' = [op |-> "save_image", number |-> counter, content |-> content,
                        bbox |-> bbox, save_face |-> save_face, fault |-> fault,
                        ret |-> sv.ret, exc |-> sv.exc, touched |-> sv.touched,
                        repeated |-> /\ last.op = "save_image"
                                     /\ last.content = content
                                     /\ last.bbox = bbox
                                     /\ last.save_face = save_face
                                     /\ last.fault = fault]
    /\ counter' = counter + 1
    /\ UNCHANGED <<build, args, nlines, pos, parsed, fetched, owners, session>>

SpecSave == InitCall /\ [][Save]_vars

(***************************************************************************)
(* parse_line on its own: lines of one to seven fields                     *)
(***************************************************************************)
\* '\t'.join(fields)
RECURSIVE JoinTabs(_)
JoinTabs(fields) ==
    IF Len(fields) = 0 THEN ""
    ELSE IF Len(fields) = 1 THEN Head(fields)
    ELSE Head(fields) \o "\t" \o JoinTabs(Tail(fields))

\* Texts of the integer fields and of the bbox field.
IdTexts == {"1", "-2", " 7", "x"}

BBoxTexts == {"1,1,2,2", "1,1,2", "1,1,2,2,3", "1,x,2,2", ""}

\* Lines parse_line may be given: the first k fields of a seven-field line.
ParseLines ==
    { JoinTabs(SubSeq(<<"a b", image_id, face_id, Url, bbox, hashbinary("JFIF"), "extra">>, 1, k)) \o "\n" :
        image_id \in IdTexts, face_id \in {"1", "y"}, bbox \in BBoxTexts, k \in 1..7 }

\* One call parse_line(line).
Parse ==
    /\ pc = "call"
    /\ \E line \in ParseLines \cup RecordLines \cup {Header} :
        last' = [op |-> "parse_line", line |-> line, rec |-> parse_line(line)]
    /\ pc' = "returned"
    /\ UNCHANGED <<build, args, nlines, pos, counter, files, dirs, log, parsed, fetched, writer, owners, session>>

SpecParse == InitCall /\ [][Parse]_vars

(***************************************************************************)
(* get_referer on its own: urls put together from their parts              *)
(***************************************************************************)
Schemes == {"http", "https", "HTTP", "ftp"}

Netlocs ==
    { "", "h", "fansshare", "fansshare.com", "fansshare.com:80", "www.fansshare.com",
      "my.fansshare.com", "Fansshare.com", "u@fansshare.com" }

\* Path, query and fragment of a url; the last one holds a second url.
UrlTails == {"", "/", "/a.jpg", "/fansshare/a.jpg", "?q=1", "#f", "/a?u=http://fansshare.com/#f"}

\* One call get_referer(url).
Referer ==
    /\ pc = "call"
    /\ \E scheme \in Schemes, netloc \in Netlocs, tail \in UrlTails :
        LET url == scheme \o "://" \o netloc \o tail
            referer == get_referer(url)
        IN  last' = [op |-> "get_referer", scheme |-> scheme, netloc |-> netloc,
                     tail |-> tail, url |-> url, exc |-> referer.exc,
                     domain |-> referer.domain]
    /\ pc' = "returned"
    /\ UNCHANGED <<build, args, nlines, pos, counter, files, dirs, log, parsed, fetched, writer, owners, session>>

SpecReferer == InitCall /\ [][Referer]_vars


(***************************************************************************)
(* Properties.                                                             *)
(***************************************************************************)
ImagesRoot == PathJoin2(datasetpath, "images") \o "/"

FacesRoot == PathJoin2(datasetpath, "faces") \o "/"

UnderImages(path) == StartsWith(path, ImagesRoot)

\* The file name carries an extension.
HasExtension(path) == FindChar(path, ".", 1) # 0

Requested == { k \in args.start_at_line..args.end_at_line : k <= nlines }

FetchedLines == { fetched[i] : i \in 1..Len(fetched) }

\* C1: with start_at_line = s and end_at_line = e > 0, only the manifest
\* lines numbered s..e are parsed and fetched, and a run that exhausts its
\* range has parsed exactly the lines s..e that the file has.  Stated for
\* the non-empty ranges, s <= e.
C1_LineRange ==
    (args.end_at_line > 0 /\ args.start_at_line <= args.end_at_line) =>
        /\ parsed \subseteq Requested
        /\ FetchedLines \subseteq Requested
        /\ (pc = "done" /\ last.op = "exhausted") => parsed = Requested

\* C2: whatever the outcome of a record (success, fetch failure, validation
\* failure, persist failure), the driver goes on with the next line: after
\* an iteration that parsed its line the run is still in the loop.
C2_SkipAndContinue ==
    (last.op = "iterate" /\ last.outcome # "parse_error") => pc = "loop"

\* C3: a record line that parse_line cannot parse is skipped with a log
\* entry for it and the run stays in the loop.
C3_MalformedSkipped ==
    (last.op = "iterate" /\ last.outcome = "parse_error" /\ last.line > 1) =>
        /\ pc = "loop"
        /\ \E i \in 1..Len(log) : log[i].line = last.number

\* The content type download_image goes by: the sniffed one when
\* python-magic is installed, the declared header otherwise.
DeterminedType(resp) ==
    IF has_magic_lib THEN magic_mime(resp.content) ELSE resp.content_type

\* C4: a response with status 200 is accepted exactly when its determined
\* content type starts with "image" and the SHA-256 of its body is the
\* expected digest, with or without python-magic.
C4_Validation ==
    (last.op = "download_image" /\ last.resp.exc = None /\ last.resp.status_code = 200) =>
        (last.ok <=>
            /\ DeterminedType(last.resp) # None
            /\ StartsWith(DeterminedType(last.resp), "image")
            /\ hashbinary(last.resp.content) = last.sha256)

\* C5: a response whose status is outside 200..299 is never accepted,
\* whatever its content type and digest.
C5_NonSuccessStatus ==
    (last.op = "download_image" /\ last.resp.exc = None
        /\ last.resp.status_code \notin 200..299) => ~last.ok

C7_ProvisionalCleanup ==
    \A path \in DOMAIN files : UnderImages(path) => HasExtension(path)

\* The extension C8 names: the type imghdr finds, else the extension of the
\* MIME type with jpe read as jpeg.
ResolvedExt(content) ==
    LET sniffed == imghdr_what(content)
        ext == LstripChar(guess_extension(magic_mime(content), FALSE), ".")
    IN  IF sniffed # None THEN sniffed
        ELSE IF ext = "jpe" THEN "jpeg" ELSE ext

FinalPath(name, image_id, ext) ==
    PathJoin2(PathJoin(datasetpath, "images", name), ImageFilename(name, image_id))
        \o "." \o ext

\* C8: when save_image has moved the provisional file, the file is at
\* images/<name>/<name>_<image_id>.<ext> with <ext> the resolved type.
C8_ResolvedExtension ==
    (last.op = "save_image" /\ Cardinality(last.touched) >= 2) =>
        /\ FinalPath("a_b", 1, ResolvedExt(last.content)) \in DOMAIN files
        /\ files[FinalPath("a_b", 1, ResolvedExt(last.content))] = last.content

\* C9: when the face step fails after the full image was moved, save_image
\* raises nothing, the run goes on, the failure is logged for the record and
\* the full image stays on disk.
C9_CropFailureReported ==
    (last.op = "iterate" /\ args.crop_face
        /\ last.outcome \in {"save_failed", "save_raised"}
        /\ Cardinality(last.touched) = 2) =>
            /\ last.exc = None
            /\ pc = "loop"
            /\ log[Len(log)].level = "ERROR" /\ log[Len(log)].line = last.number
            /\ \E path \in last.touched :
                  path \in DOMAIN files /\ UnderImages(path) /\ HasExtension(path)

\* C10: manifest line 1, the header, is never passed to parse_line.
C10_HeaderSkipped == 1 \notin parsed

\* The fields of a line as the contract counts them.
FieldsOf(line) == Split(Rstrip(line), "\t")

\* A line the contract calls well formed: exactly six fields, integer
\* image_id and face_id, a bbox of exactly four integers.
IsWellFormed(line) ==
    LET parts == FieldsOf(line)
    IN  /\ Len(parts) = 6
        /\ IsIntLiteral(parts[2])
        /\ IsIntLiteral(parts[3])
        /\ Len(Split(parts[5], ",")) = 4
        /\ \A i \in 1..4 : IsIntLiteral(Split(parts[5], ",")[i])

\* C11: parse_line returns the six fields, bbox being four integers, for
\* every well-formed line, and fails for every other line: a number of
\* fields other than six, a non-integer image_id or face_id, a bbox that is
\* not exactly four integers.
C11_ParseContract ==
    (last.op = "parse_line") =>
        /\ IsWellFormed(last.line) <=> last.rec.exc = None
        /\ last.rec.exc = None =>
            /\ Len(last.rec.bbox) = 4
            /\ last.rec.name = FieldsOf(last.line)[1]
            /\ last.rec.url = FieldsOf(last.line)[4]
            /\ last.rec.sha256 = FieldsOf(last.line)[6]

\* C13: when the manifest cannot be opened, no record is parsed, fetched or
\* persisted, exactly one error entry is logged, and main returns: the run
\* is over and takes no further step.
C13_FatalManifestError ==
    /\ []((last.op = "open" /\ ~last.opened) =>
            /\ pc = "done"
            /\ parsed = {}
            /\ fetched = <<>>
            /\ files = EmptyFiles
            /\ dirs = {}
            /\ Len(log) = 1
            /\ log[1].level = "ERROR")
    /\ [][(pc \in {"done", "crashed"}) => (vars' = vars)]_vars

\* open() failed and main returned with its one log entry.
C13_Witness ==
    /\ last.op = "open"
    /\ ~last.opened
    /\ pc = "done"
    /\ Len(log) = 1

\* An exception is raised inside download_image: while the headers are
\* built, by the GET, by raise_for_status, or by the read of a content-type
\* header that is missing.
ExceptionRaised ==
    \/ generate_headers(last.url).exc # None
    \/ last.resp.exc # None
    \/ raise_for_status(last.resp.status_code)
    \/ ~has_magic_lib /\ last.resp.content_type = None

\* C12: every exception raised while download_image builds the headers,
\* performs the GET, reads the body or reads the content-type header ends in
\* the return of None after one error entry with the line number and the
\* url; no exception leaves download_image.
C12_FetchAbsorbs ==
    (last.op = "download_image") =>
        /\ last.exc = None
        /\ ExceptionRaised =>
            /\ ~last.ok
            /\ Len(log) = 1
            /\ log[1].level = "ERROR"
            /\ log[1].line = last.number
            /\ log[1].url = last.url

\* The GET timed out and the call returned None with its one log entry.
C12_Witness ==
    /\ last.op = "download_image"
    /\ last.resp.exc = "Timeout"
    /\ ~last.ok
    /\ Len(log) = 1

\* C14: within a run, no filesystem path (provisional, full image or face)
\* is written by two records that differ in name, image_id or face_id.
C14_NoPathContention ==
    \A path \in DOMAIN owners : Cardinality(owners[path]) <= 1

\* C15: a call of save_image with the bytes, bounding box, crop flag and
\* faults of the call before it leaves every file and directory as that
\* call left them: the same paths with the same content, nothing added.
C15_IdempotentPersist ==
    [][ (last'.op = "save_image" /\ last'.repeated) => (files' = files /\ dirs' = dirs) ]_vars

\* A record was saved a second time with its face, and both files are there.
C15_Witness ==
    /\ last.op = "save_image"
    /\ last.repeated
    /\ last.ret
    /\ last.save_face
    /\ Cardinality(DOMAIN files) = 2

\* The host C16 names for a network location.
RefererHost(netloc) ==
    IF StartsWith(netloc, "fansshare") THEN "www." \o netloc ELSE netloc

\* C16: for a url scheme://netloc followed by any path, query and fragment,
\* get_referer returns scheme://host, host being "www." + netloc when netloc
\* begins with "fansshare" and netloc itself otherwise; nothing of the path,
\* query or fragment is in it.  The scheme comes back in lower case.
C16_RefererSynthesis ==
    (last.op = "get_referer") =>
        /\ last.exc = None
        /\ last.domain = Lower(last.scheme) \o "://" \o RefererHost(last.netloc)
        /\ \A c \in {"/", "?", "#"} : FindChar(last.domain, c, Len(last.scheme) + 4) = 0

\* A fansshare url with a path, a query and a fragment got the www. host.
C16_Witness ==
    /\ last.op = "get_referer"
    /\ last.netloc = "fansshare.com"
    /\ last.tail = "/a?u=http://fansshare.com/#f"
    /\ last.domain = "http://www.fansshare.com"

\* C17: the number passed to download_image and save_image, and written in
\* the entries logged for a record, is the 1-based position of its line in
\* the manifest, whatever start_at_line is; lines are visited in strictly
\* increasing order, each at most once.  The entry main() logs for an
\* EnvironmentError carries no line number (0 here).
C17_LineNumbering ==
    /\ [](last.op = "iterate" => last.number = last.line)
    /\ [][ (last'.op = "iterate" /\ parsed' # parsed) =>
             /\ \A j \in parsed : j < last'.line
             /\ last'.line >= args.start_at_line
             /\ \A i \in (Len(log) + 1)..Len(log') : log'[i].line \in {last'.line, 0} ]_vars
    /\ [](\A i, j \in 1..Len(fetched) : i < j => fetched[i] < fetched[j])

\* A run started at line 3 has processed line 3 and logged it under 3.
C17_Witness ==
    /\ last.op = "iterate"
    /\ args.start_at_line = 3
    /\ last.line = 3
    /\ last.number = 3
    /\ Len(log) > 0
    /\ log[1].line = 3

\* C18: one GET is issued for a record, also when the response has an error
\* status, a content type that is no image or another digest; the retry
\* limit of the session is the one setup_session was given, for the whole
\* run.
C18_NoRefetch ==
    /\ [](\A i, j \in 1..Len(fetched) : i # j => fetched[i] # fetched[j])
    /\ [][ last'.op = "iterate" =>
             fetched' \in {fetched, Append(fetched, last'.line)} ]_vars
    /\ []((last.op = "iterate" /\ last.outcome # "parse_error") =>
             fetched[Len(fetched)] = last.line)
    /\ [](session.max_retries = args.max_retries)

\* The second record of a run was rejected on its digest, after one GET each.
C18_Witness ==
    /\ last.op = "iterate"
    /\ last.outcome = "fetch_failed"
    /\ log[Len(log)].msg = "SHA 256 hash different"
    /\ Len(fetched) = 2
    /\ session.max_retries = 3

UnderFaces(path) == path = PathJoin2(datasetpath, "faces") \/ StartsWith(path, FacesRoot)

\* C19: without crop_face no file or directory is ever under
\* datasetpath/faces and a saved record adds the full image under
\* datasetpath/images and nothing else; with crop_face every face file was
\* written by a record whose full image is on disk.
C19_CropFlagFrame ==
    /\ [](~args.crop_face =>
            /\ \A path \in DOMAIN files : ~UnderFaces(path)
            /\ \A path \in dirs : ~UnderFaces(path))
    /\ [][ (~args.crop_face /\ last'.op = "iterate" /\ last'.outcome = "saved") =>
             \E image \in DOMAIN files' :
                /\ UnderImages(image) /\ HasExtension(image)
                /\ DOMAIN files' \subseteq DOMAIN files \cup {image}
                /\ \A path \in DOMAIN files \ {image} :
                      path \in DOMAIN files' /\ files'[path] = files[path] ]_vars
    /\ [](\A face \in DOMAIN files : UnderFaces(face) =>
            \E image \in DOMAIN files :
                /\ UnderImages(image) /\ HasExtension(image)
                /\ owners[face] \subseteq owners[image])

\* Without crop_face a record was saved: its full image is the only file.
C19_Witness ==
    /\ ~args.crop_face
    /\ last.op = "iterate"
    /\ last.outcome = "saved"
    /\ Cardinality(DOMAIN files) = 1
    /\ \A path \in DOMAIN files : UnderImages(path) /\ HasExtension(path)

=============================================================================
